---- MODULE Spec2Model ----
(***************************************************************************)
(* Binary property-list codec (bplist00): BinaryWriter::write and          *)
(* BinaryReader::parse, modelled byte for byte.                            *)
(*                                                                         *)
(* Representation of a Plist value: a record of the variant name t and the *)
(* payload, in a field named after the variant:                            *)
(*   Boolean    b   : BOOLEAN                                              *)
(*   Integer    i   : the i64 as 8 big-endian two's-complement bytes       *)
(*   Float      f   : the f64 as its 8 big-endian IEEE-754 bytes           *)
(*   Date       d   : <<secs, nanos>> (DateTime<Utc>: Unix seconds, nanos) *)
(*   Data       bin : sequence of bytes                                    *)
(*   String     s   : the string's UTF-8 bytes                             *)
(*   Array      a   : sequence of values                                   *)
(*   Dictionary kv  : sequence of <<key bytes, value>> pairs               *)
(* Byte buffers are sequences over 0..255.  u64/usize quantities that stay *)
(* small are integers; 64-bit payloads are kept as byte sequences.         *)
(***************************************************************************)
EXTENDS Integers, Sequences, FiniteSets, TLC

\* ------------------------------------------------------------------------
\* Bounds of the model
\* ------------------------------------------------------------------------
\* number of elements of the large array value (more than 255 objects)
BigCount == 256
\* length of the long string / long data payload (count record with 2 bytes)
LongLen == 256
\* malformed buffers are derived only from written buffers up to this length
MaxTamperLen == 60

\* ------------------------------------------------------------------------
\* Bytes and fixed-width integers
\* ------------------------------------------------------------------------
Byte == 0..255

\* a usize/u64 too large for the model's integers: larger than any buffer
Huge == 2000000000

Pow256(k) == CASE k = 0 -> 1 [] k = 1 -> 256 [] k = 2 -> 65536 [] OTHER -> 16777216

\* n.to_be_bytes() after the cast `n as u<8w>` (n >= 0)
BE(n, w) == [i \in 1..w |-> IF w - i >= 4 THEN 0 ELSE (n \div Pow256(w - i)) % 256]

\* be_u8 / be_u16 / be_u32 / be_u64 followed by `as usize`
RECURSIVE FromBE(_)
FromBE(s) ==
  IF Len(s) = 0 THEN 0
  ELSE LET hi == FromBE(SubSeq(s, 1, Len(s) - 1))
       IN IF hi >= 7000000 THEN Huge ELSE hi * 256 + s[Len(s)]

RECURSIVE BitOr(_, _)
BitOr(a, b) ==
  IF a = 0 THEN b
  ELSE IF b = 0 THEN a
  ELSE 2 * BitOr(a \div 2, b \div 2) + (IF a % 2 = 1 \/ b % 2 = 1 THEN 1 ELSE 0)

\* u8 shift left: bits shifted out are lost
Shl8(x, k) == (x * (CASE k = 0 -> 1 [] k = 1 -> 2 [] k = 2 -> 4 [] k = 3 -> 8 [] OTHER -> 16)) % 256

Zeros(n) == [i \in 1..n |-> 0]

AllZero(s, lo, hi) == \A i \in lo..hi : s[i] = 0

\* the i64 n (0 <= n < 2^31) as 8 big-endian bytes
I64(n) == BE(n, 8)
\* -1 as i64
MinusOne == [i \in 1..8 |-> 255]

\* ------------------------------------------------------------------------
\* BinaryWriter: leaf encodings
\* ------------------------------------------------------------------------
\* serialize_count: marker byte (bytes_needed << 4) then the count; the
\* counts of the model stay below 2^31, so the 8-byte arm is never taken
serialize_count(count) ==
  LET bytes_needed == IF count <= 255 THEN 1
                      ELSE IF count <= 65535 THEN 2
                      ELSE 4
      type_byte == (bytes_needed * 16) % 256
  IN <<type_byte>> \o BE(count, bytes_needed)

\* serialize_length: <<header byte, length bytes>>
serialize_length(code, len) ==
  LET object_type == code % 16
      extra_info == len % 16
  IN IF len < 15
     THEN <<BitOr(Shl8(object_type, 4), extra_info), <<>> >>
     ELSE <<BitOr(Shl8(code, 4), 15), serialize_count(len)>>

\* serialize_data: the type code is or-ed with the length as it is
serialize_data(code, value) ==
  LET len == Len(value)
  IN IF len < 15
     THEN <<BitOr(code, len), <<>> >>
     ELSE <<BitOr(code, 15), serialize_count(len)>>

IsNegative(v) == v[1] >= 128

\* serialize_integer without the two-byte arm
serialize_integer_no_u16(code, v) ==
  LET c == Shl8(code, 4)
      r == IF AllZero(v, 1, 7) THEN <<0, SubSeq(v, 8, 8)>>
           ELSE IF AllZero(v, 1, 4) THEN <<2, SubSeq(v, 5, 8)>>
           ELSE <<3, v>>
  IN <<BitOr(c, r[1] % 16), r[2]>>

\* serialize_integer on a non-negative i64: <<header byte, value bytes>>
serialize_integer(code, v) ==
  LET c == Shl8(code, 4)
      r == IF AllZero(v, 1, 7) THEN <<0, SubSeq(v, 8, 8)>>
           ELSE IF AllZero(v, 1, 6) THEN <<1, SubSeq(v, 7, 8)>>
           ELSE IF AllZero(v, 1, 4) THEN <<2, SubSeq(v, 5, 8)>>
           ELSE <<3, v>>
  IN <<BitOr(c, r[1] % 16), r[2]>>

\* ------------------------------------------------------------------------
\* IEEE-754 on byte sequences
\* ------------------------------------------------------------------------
Pow2(k) == CASE k = 0 -> 1 [] k = 1 -> 2 [] k = 2 -> 4 [] k = 3 -> 8
             [] k = 4 -> 16 [] k = 5 -> 32 [] k = 6 -> 64 [] k = 7 -> 128
             [] k = 8 -> 256 [] k = 9 -> 512 [] k = 10 -> 1024 [] k = 11 -> 2048
             [] k = 12 -> 4096 [] k = 13 -> 8192 [] k = 14 -> 16384
             [] k = 15 -> 32768 [] k = 16 -> 65536 [] k = 17 -> 131072
             [] k = 18 -> 262144 [] k = 19 -> 524288 [] k = 20 -> 1048576
             [] k = 21 -> 2097152 [] k = 22 -> 4194304 [] k = 23 -> 8388608
             [] k = 24 -> 16777216 [] k = 25 -> 33554432 [] k = 26 -> 67108864
             [] k = 27 -> 134217728 [] k = 28 -> 268435456
             [] k = 29 -> 536870912 [] OTHER -> 1073741824

\* floor(log2 a) for 1 <= a < 2^31
Log2(a) == CHOOSE p \in 0..30 : Pow2(p) <= a /\ (p = 30 \/ a < Pow2(p + 1))

\* fields of an f64: sign, biased exponent, top 23 and low 29 mantissa bits
F64Sign(b) == b[1] \div 128
F64Exp(b) == (b[1] % 128) * 16 + b[2] \div 16
F64M23(b) == (b[2] % 16) * 524288 + b[3] * 2048 + b[4] * 8 + b[5] \div 32
F64Low29(b) == (b[5] % 32) * 16777216 + b[6] * 65536 + b[7] * 256 + b[8]

F64Bytes(sign, exp, m23, low29) ==
  << sign * 128 + exp \div 16,
     (exp % 16) * 16 + m23 \div 524288,
     (m23 \div 2048) % 256,
     (m23 \div 8) % 256,
     (m23 % 8) * 32 + low29 \div 16777216,
     (low29 \div 65536) % 256,
     (low29 \div 256) % 256,
     low29 % 256 >>

F32Bytes(sign, exp, m23) ==
  << sign * 128 + exp \div 2,
     (exp % 2) * 128 + m23 \div 65536,
     (m23 \div 256) % 256,
     m23 % 256 >>

\* the conversion test looking at the exponent only, not at the mantissa bits
\* that single precision drops
IsLosslessByExponent(b) ==
  LET e == F64Exp(b) - 1023
  IN F64Exp(b) = 0 \/ (e >= -126 /\ e <= 127)

\* (value as f32) as f64 == value
IsLossless(b) ==
  LET exp == F64Exp(b)
      m23 == F64M23(b)
      low == F64Low29(b)
      e == exp - 1023
  IN CASE exp = 2047 -> (m23 = 0 /\ low = 0)
       [] exp = 0 -> (m23 = 0 /\ low = 0)
       [] e >= -126 /\ e <= 127 -> low = 0
       [] e >= -149 /\ e <= -127 -> low = 0 /\ (8388608 + m23) % Pow2(-126 - e) = 0
       [] OTHER -> FALSE

\* value.abs() <= f32::MAX for a value that is lossless in f32
WithinF32Max(b) == F64Exp(b) # 2047

\* the bytes of `value as f32` for a value that is lossless in f32
AsF32(b) ==
  LET exp == F64Exp(b)
      e == exp - 1023
  IN IF exp = 0 THEN F32Bytes(F64Sign(b), 0, 0)
     ELSE IF exp = 2047 THEN F32Bytes(F64Sign(b), 255, 0)
     ELSE IF e >= -126 THEN F32Bytes(F64Sign(b), e + 127, F64M23(b))
     ELSE F32Bytes(F64Sign(b), 0, (8388608 + F64M23(b)) \div Pow2(-126 - e))

\* be_f32 followed by `as f64`
F32ToF64(c) ==
  LET sign == c[1] \div 128
      exp == (c[1] % 128) * 2 + c[2] \div 128
      m23 == (c[2] % 128) * 65536 + c[3] * 256 + c[4]
  IN IF exp = 255 THEN F64Bytes(sign, 2047, m23, 0)
     ELSE IF exp = 0 /\ m23 = 0 THEN F64Bytes(sign, 0, 0, 0)
     ELSE IF exp = 0
          THEN LET p == Log2(m23)
               IN F64Bytes(sign, p - 149 + 1023, (m23 - Pow2(p)) * Pow2(23 - p), 0)
     ELSE F64Bytes(sign, exp - 127 + 1023, m23, 0)

\* serialize_float: <<header byte, value bytes>>
serialize_float(code, value) ==
  LET r == IF IsLossless(value) /\ WithinF32Max(value)
           THEN <<0, AsF32(value)>>
           ELSE <<3, value>>
  IN <<BitOr(Shl8(code, 4), r[1] % 16), r[2]>>

\* ------------------------------------------------------------------------
\* Dates.  The instants of the model lie on the half-second grid
\* (nanos is 0 or 500000000), where the f64 arithmetic of the code is exact;
\* a number of half seconds k stands for the f64 k / 2.
\* ------------------------------------------------------------------------
HalfNanos == 500000000
\* 978_307_200.0 in half seconds
Epoch2001Halves == 1956614400

\* the f64 k / 2 as bytes
HalfToF64(k) ==
  IF k = 0 THEN Zeros(8)
  ELSE LET a == IF k < 0 THEN 0 - k ELSE k
           p == Log2(a)
           r == a - Pow2(p)
           m23 == IF p <= 23 THEN r * Pow2(23 - p) ELSE r \div Pow2(p - 23)
           low == IF p <= 23 THEN 0 ELSE (r % Pow2(p - 23)) * Pow2(52 - p)
       IN F64Bytes(IF k < 0 THEN 1 ELSE 0, p - 1 + 1023, m23, low)

\* whether the f64 is k / 2 for an integer k with 0 < |k| < 2^31
OnHalfGrid(b) ==
  LET p == F64Exp(b) - 1023 + 1
  IN /\ p >= 0 /\ p <= 30
     /\ IF p <= 23 THEN F64Low29(b) = 0 /\ F64M23(b) % Pow2(23 - p) = 0
        ELSE F64Low29(b) % Pow2(52 - p) = 0

\* |k| of an f64 on the half-second grid
F64ToHalfAbs(b) ==
  LET p == F64Exp(b) - 1023 + 1
  IN IF p <= 23 THEN Pow2(p) + F64M23(b) \div Pow2(23 - p)
     ELSE Pow2(p) + F64M23(b) * Pow2(p - 23) + F64Low29(b) \div Pow2(52 - p)

\* serialize_date: <<header byte, value bytes>>
serialize_date(code, value) ==
  LET unix_timestamp == 2 * value[1] + value[2] \div HalfNanos
      seconds_since_2001 == unix_timestamp - Epoch2001Halves
  IN <<BitOr(Shl8(code, 4), 3), HalfToF64(seconds_since_2001)>>

\* ------------------------------------------------------------------------
\* Plist values
\* ------------------------------------------------------------------------
Boolean(b) == [t |-> "Boolean", b |-> b]
Integer(bytes8) == [t |-> "Integer", i |-> bytes8]
Float(bytes8) == [t |-> "Float", f |-> bytes8]
Date(secs, nanos) == [t |-> "Date", d |-> <<secs, nanos>>]
Data(bs) == [t |-> "Data", bin |-> bs]
String(bs) == [t |-> "String", s |-> bs]
Array(vs) == [t |-> "Array", a |-> vs]
Dictionary(ps) == [t |-> "Dictionary", kv |-> ps]

\* ------------------------------------------------------------------------
\* BinaryWriter: collection with deduplication
\* ------------------------------------------------------------------------
\* serialize_ref: the index cast to the current ref_size
serialize_ref(index, rs) ==
  CASE rs = 1 -> <<index % 256>>
    [] rs = 2 -> BE(index % 65536, 2)
    [] rs = 4 -> BE(index, 4)
    [] OTHER -> BE(index, 8)

\* position of the first memo entry whose chunk list equals bytes, 0 if none
FindMemo(mem, bytes) ==
  LET hits == {i \in 1..Len(mem) : mem[i][2] = bytes}
  IN IF hits = {} THEN 0 ELSE CHOOSE i \in hits : \A j \in hits : i <= j

\* The writer state threaded through collection is
\* [objects: the counter, mem: the memo list of <<index, chunk list>>,
\*  panic: a negative integer aborted the process], with two history fields
\* the code does not have: reused, one record per collect_objects call that
\* found its chunk list in the memo (the value, its own chunk, the index
\* returned, counter and memo when the call began and when it returned, the
\* chunks it returned), and stored, one record per call that pushed onto the
\* memo (the value, its own chunk, its index).
\* BinaryWriter::new() and the empty memo list `bytes` of write
NewCollection ==
  [objects |-> 0, mem |-> <<>>, panic |-> FALSE, reused |-> <<>>, stored |-> <<>>]

RECURSIVE collect_objects(_, _, _)
RECURSIVE serialize_object(_, _, _)
RECURSIVE CollectRange(_, _, _, _, _)

\* the loop `for elem in value { collect_objects; buffer.extend; datas.extend }`
\* over elems[lo..hi]; acc is [st, buffer, datas]
CollectRange(elems, lo, hi, acc, rs) ==
  IF acc.st.panic \/ lo > hi THEN acc
  ELSE IF lo = hi
  THEN LET r == collect_objects(elems[lo], acc.st, rs)
       IN [st |-> r.st, buffer |-> acc.buffer \o r.ref, datas |-> acc.datas \o r.data]
  ELSE LET mid == (lo + hi) \div 2
       IN CollectRange(elems, mid + 1, hi, CollectRange(elems, lo, mid, acc, rs), rs)

\* serialize_object: [st, list] where list is the value's own chunk followed
\* by the chunks its children contributed
serialize_object(value, st, rs) ==
  CASE value.t = "Array" ->
         LET h == serialize_length(10, Len(value.a))
             r == CollectRange(value.a, 1, Len(value.a),
                               [st |-> st, buffer |-> <<h[1]>> \o h[2], datas |-> <<>>], rs)
         IN [st |-> r.st, list |-> <<r.buffer>> \o r.datas]
    [] value.t = "Dictionary" ->
         LET h == serialize_length(13, Len(value.kv))
             keys == [i \in 1..Len(value.kv) |-> String(value.kv[i][1])]
             vals == [i \in 1..Len(value.kv) |-> value.kv[i][2]]
             k == CollectRange(keys, 1, Len(keys),
                               [st |-> st, buffer |-> <<h[1]>> \o h[2], datas |-> <<>>], rs)
             r == CollectRange(vals, 1, Len(vals), k, rs)
         IN [st |-> r.st, list |-> <<r.buffer>> \o r.datas]
    [] value.t = "Boolean" ->
         [st |-> st, list |-> << <<IF value.b THEN 9 ELSE 8>> >>]
    [] value.t = "Integer" ->
         IF IsNegative(value.i)
         THEN [st |-> [st EXCEPT !.panic = TRUE], list |-> <<>>]
         ELSE LET h == serialize_integer(1, value.i)
              IN [st |-> st, list |-> << <<h[1]>> \o h[2] >>]
    [] value.t = "Float" ->
         LET h == serialize_float(2, value.f)
         IN [st |-> st, list |-> << <<h[1]>> \o h[2] >>]
    [] value.t = "String" ->
         LET h == serialize_length(5, Len(value.s))
         IN [st |-> st, list |-> << <<h[1]>> \o h[2] \o value.s >>]
    [] value.t = "Date" ->
         LET h == serialize_date(3, value.d)
         IN [st |-> st, list |-> << <<h[1]>> \o h[2] >>]
    [] value.t = "Data" ->
         LET h == serialize_data(4, value.bin)
         IN [st |-> st, list |-> << <<h[1]>> \o h[2] \o value.bin >>]

\* collect_objects without `self.objects -= 1` when the chunk list is found
collect_objects_no_rollback(value, st, rs) ==
  LET index == st.objects
      s == serialize_object(value, [st EXCEPT !.objects = @ + 1], rs)
      hit == FindMemo(s.st.mem, s.list)
      found == s.st
      pushed == [s.st EXCEPT !.mem = Append(@, <<index, s.list>>)]
  IN IF s.st.panic THEN [st |-> s.st, data |-> <<>>, ref |-> <<>>]
     ELSE IF hit # 0
     THEN [st |-> [found EXCEPT !.reused =
                     Append(@, [v |-> value, chunk |-> s.list[1],
                                index |-> s.st.mem[hit][1],
                                objects0 |-> st.objects, mem0 |-> st.mem,
                                objects1 |-> found.objects, mem1 |-> found.mem,
                                data |-> <<>>])],
           data |-> <<>>,
           ref |-> serialize_ref(s.st.mem[hit][1], rs)]
     ELSE [st |-> [pushed EXCEPT !.stored =
                     Append(@, [v |-> value, chunk |-> s.list[1], index |-> index])],
           data |-> s.list,
           ref |-> serialize_ref(index, rs)]

\* collect_objects: [st, data, ref]
collect_objects(value, st, rs) ==
  LET index == st.objects
      s == serialize_object(value, [st EXCEPT !.objects = @ + 1], rs)
      hit == FindMemo(s.st.mem, s.list)
      found == [s.st EXCEPT !.objects = @ - 1]
      pushed == [s.st EXCEPT !.mem = Append(@, <<index, s.list>>)]
  IN IF s.st.panic THEN [st |-> s.st, data |-> <<>>, ref |-> <<>>]
     ELSE IF hit # 0
     THEN [st |-> [found EXCEPT !.reused =
                     Append(@, [v |-> value, chunk |-> s.list[1],
                                index |-> s.st.mem[hit][1],
                                objects0 |-> st.objects, mem0 |-> st.mem,
                                objects1 |-> found.objects, mem1 |-> found.mem,
                                data |-> <<>>])],
           data |-> <<>>,
           ref |-> serialize_ref(s.st.mem[hit][1], rs)]
     ELSE [st |-> [pushed EXCEPT !.stored =
                     Append(@, [v |-> value, chunk |-> s.list[1], index |-> index])],
           data |-> s.list,
           ref |-> serialize_ref(index, rs)]

\* calculate_sizes with the first threshold off by one
RefSizeForOffByOne(max_ref) ==
  IF max_ref <= 256 THEN 1
  ELSE IF max_ref <= 65535 THEN 2
  ELSE 4

\* calculate_sizes: ref_size from max_ref = self.objects (below 2^31 here,
\* so the 8-byte arm is never taken)
RefSizeFor(max_ref) ==
  IF max_ref <= 255 THEN 1
  ELSE IF max_ref <= 65535 THEN 2
  ELSE 4

\* calculate_sizes: offset_size from max_offset
OffsetSizeFor(max_offset) ==
  IF max_offset <= 255 THEN 1
  ELSE IF max_offset <= 65535 THEN 2
  ELSE 4

\* total length of chunks[lo..hi]
RECURSIVE SumLen(_, _, _)
SumLen(chunks, lo, hi) ==
  IF lo > hi THEN 0
  ELSE IF lo = hi THEN Len(chunks[lo])
  ELSE LET mid == (lo + hi) \div 2
       IN SumLen(chunks, lo, mid) + SumLen(chunks, mid + 1, hi)

\* the loop of write recording the position after the chunk, not before it
ChunkOffsetsAfter(chunks) == [i \in 1..Len(chunks) |-> SumLen(chunks, 1, i) + 8]

\* the loop of write that records cursor.position() + 8 before every chunk
ChunkOffsets(chunks) == [i \in 1..Len(chunks) |-> SumLen(chunks, 1, i - 1) + 8]

RECURSIVE Concat(_, _, _)
Concat(chunks, lo, hi) ==
  IF lo > hi THEN <<>>
  ELSE IF lo = hi THEN chunks[lo]
  ELSE LET mid == (lo + hi) \div 2
       IN Concat(chunks, lo, mid) \o Concat(chunks, mid + 1, hi)

\* generate_offset_table
generate_offset_table(offs, size) ==
  Concat([i \in 1..Len(offs) |-> BE(offs[i] % (IF size >= 4 THEN Huge ELSE Pow256(size)), size)],
         1, Len(offs))

\* generate_trailer with the two width bytes in each other's place
generate_trailer_swapped(offsize, refsize, root_index, nobjects, offset_table_start) ==
  Zeros(6) \o <<refsize, offsize>> \o BE(nobjects, 8) \o BE(root_index, 8)
           \o BE(offset_table_start, 8)

\* generate_trailer
generate_trailer(offsize, refsize, root_index, nobjects, offset_table_start) ==
  Zeros(6) \o <<offsize, refsize>> \o BE(nobjects, 8) \o BE(root_index, 8)
           \o BE(offset_table_start, 8)

Magic == <<98, 112, 108, 105, 115, 116, 48, 48>>

\* ------------------------------------------------------------------------
\* BinaryReader.  A result is [status, value]: status is "ok", "error" (an
\* Err returned to the caller), "panic" (index or slice out of range,
\* unwrap of None, panic!) or "overflow" (recursion that never returns).
\* Offsets are 0-based as in the code: the byte at offset o is data[o + 1].
\* ------------------------------------------------------------------------
NoValue == [t |-> "None", none |-> 0]
Ok(val) == [status |-> "ok", value |-> val]
Fail(st) == [status |-> st, value |-> NoValue]

Slice(data, off, n) == SubSeq(data, off + 1, off + n)
\* whether n bytes can be read at offset off
Has(data, off, n) == n <= Len(data) - off

\* the header check looking at the six letters "bplist" and not at the version
parse_bplist_header_any_version(input) ==
  Len(input) >= 6 /\ SubSeq(input, 1, 6) = SubSeq(Magic, 1, 6)

\* parse_bplist_header: tag("bplist00")
parse_bplist_header(input) == Len(input) >= 8 /\ SubSeq(input, 1, 8) = Magic

\* parse_trailer on the 32 bytes that start at offset off
parse_trailer(input, off) ==
  [offset_table_offset_size |-> input[off + 7],
   object_ref_size |-> input[off + 8],
   num_objects |-> FromBE(Slice(input, off + 8, 8)),
   top_object_offset |-> FromBE(Slice(input, off + 16, 8)),
   offset_table_start |-> FromBE(Slice(input, off + 24, 8))]

\* count(map(be_uN, ..), counts) at offset off: [status, list, next]
ReadInts(data, off, counts, width) ==
  IF counts > (Len(data) - off) \div width
  THEN [status |-> "error", list |-> <<>>, next |-> off]
  ELSE [status |-> "ok",
        list |-> [i \in 1..counts |-> FromBE(Slice(data, off + (i - 1) * width, width))],
        next |-> off + counts * width]

\* parse_count at offset off: [status, count, next]
parse_count(data, off) ==
  IF ~Has(data, off, 1) THEN [status |-> "error", count |-> 0, next |-> off]
  ELSE LET header == data[off + 1]
           nib == header % 16
           byte_count == IF nib <= 3 THEN Pow2(nib) ELSE 0
       IN IF byte_count = 0 \/ ~Has(data, off + 1, byte_count)
          THEN [status |-> "error", count |-> 0, next |-> off]
          ELSE [status |-> "ok",
                count |-> FromBE(Slice(data, off + 1, byte_count)),
                next |-> off + 1 + byte_count]

\* the length rule shared by data, strings, arrays and dictionaries:
\* extra_info, or parse_count when extra_info = 0xF
ReadLength(data, off, extra_info) ==
  IF extra_info = 15 THEN parse_count(data, off)
  ELSE [status |-> "ok", count |-> extra_info, next |-> off]

\* parse_bool
parse_bool(extra_info) ==
  CASE extra_info = 0 -> Ok(Boolean(FALSE))
    [] extra_info = 8 -> Ok(Boolean(FALSE))
    [] extra_info = 9 -> Ok(Boolean(TRUE))
    [] OTHER -> Fail("error")

\* parse_integer: unsigned read, widened to i64
parse_integer(data, off, extra_info) ==
  IF extra_info > 3 THEN Fail("error")
  ELSE LET size == Pow2(extra_info)
       IN IF ~Has(data, off, size) THEN Fail("error")
          ELSE Ok(Integer(Zeros(8 - size) \o Slice(data, off, size)))

\* parse_float
parse_float(data, off, extra_info) ==
  CASE extra_info = 0 \/ extra_info = 2 ->
         IF Has(data, off, 4) THEN Ok(Float(F32ToF64(Slice(data, off, 4)))) ELSE Fail("error")
    [] extra_info = 3 ->
         IF Has(data, off, 8) THEN Ok(Float(Slice(data, off, 8))) ELSE Fail("error")
    [] OTHER -> Fail("error")

\* largest number of half seconds since 2001 the model converts to an instant
MaxDateHalves == 190000000
\* an instant off the half-second grid, kept as its payload
DateOffGrid(b) == [t |-> "DateOffGrid", raw |-> b]

\* DateTime::from_timestamp returns None, and unwrap panics, outside chrono's
\* range of about +-262000 years: every f64 from 2^43 on, and those of
\* exponent 42 from about 8.21e12 (8.33e12 below zero) on
OutOfChronoRange(b) ==
  LET e == F64Exp(b) - 1023
  IN \/ e >= 43
     \/ e = 42 /\ F64M23(b) >= (IF F64Sign(b) = 1 THEN 7510000 ELSE 7270000)

\* parse_date: seconds since 2001 plus 978307200.0, split by truncation
\* (`as i64`) and by the saturating cast of the fraction (`as u32`); NaN casts
\* to 0
parse_date(data, off) ==
  IF ~Has(data, off, 8) THEN Fail("error")
  ELSE LET b == Slice(data, off, 8)
           mantZero == F64M23(b) = 0 /\ F64Low29(b) = 0
       IN CASE F64Exp(b) = 2047 /\ ~mantZero -> Ok(Date(0, 0))
            [] OutOfChronoRange(b) -> Fail("panic")
            [] F64Exp(b) = 0 /\ mantZero -> Ok(Date(Epoch2001Halves \div 2, 0))
            [] OnHalfGrid(b) /\ (F64Sign(b) = 1 \/ F64ToHalfAbs(b) <= MaxDateHalves) ->
                 LET k == IF F64Sign(b) = 1 THEN 0 - F64ToHalfAbs(b) ELSE F64ToHalfAbs(b)
                     u == k + Epoch2001Halves
                 IN IF u >= 0 THEN Ok(Date(u \div 2, (u % 2) * HalfNanos))
                    ELSE Ok(Date(0 - ((0 - u) \div 2), 0))
            [] OTHER -> Ok(DateOffGrid(b))

\* parse_data
parse_data(data, off, extra_info) ==
  LET l == ReadLength(data, off, extra_info)
  IN IF l.status # "ok" \/ ~Has(data, l.next, l.count) THEN Fail("error")
     ELSE Ok(Data(Slice(data, l.next, l.count)))

\* ------------------------------------------------------------------------
\* Text decoding
\* ------------------------------------------------------------------------
ByteAt(bs, j) == IF j <= Len(bs) THEN bs[j] ELSE 0
IsCont(x) == x >= 128 /\ x <= 191
Replacement == <<239, 191, 189>>

\* one step of String::from_utf8_lossy at position i: <<bytes consumed, valid>>
Utf8Step(bs, i) ==
  LET b == bs[i]
      b2 == ByteAt(bs, i + 1)
      b3 == ByteAt(bs, i + 2)
      b4 == ByteAt(bs, i + 3)
      second3 == \/ (b = 224 /\ b2 >= 160 /\ b2 <= 191)
                 \/ (b >= 225 /\ b <= 236 /\ IsCont(b2))
                 \/ (b = 237 /\ b2 >= 128 /\ b2 <= 159)
                 \/ (b >= 238 /\ b <= 239 /\ IsCont(b2))
      second4 == \/ (b = 240 /\ b2 >= 144 /\ b2 <= 191)
                 \/ (b >= 241 /\ b <= 243 /\ IsCont(b2))
                 \/ (b = 244 /\ b2 >= 128 /\ b2 <= 143)
  IN CASE b < 128 -> <<1, TRUE>>
       [] b >= 194 /\ b <= 223 -> IF IsCont(b2) THEN <<2, TRUE>> ELSE <<1, FALSE>>
       [] b >= 224 /\ b <= 239 ->
            IF ~second3 THEN <<1, FALSE>>
            ELSE IF ~IsCont(b3) THEN <<2, FALSE>> ELSE <<3, TRUE>>
       [] b >= 240 /\ b <= 244 ->
            IF ~second4 THEN <<1, FALSE>>
            ELSE IF ~IsCont(b3) THEN <<2, FALSE>>
            ELSE IF ~IsCont(b4) THEN <<3, FALSE>> ELSE <<4, TRUE>>
       [] OTHER -> <<1, FALSE>>

\* the scan of String::from_utf8_lossy from position i: invalid sequences
\* become U+FFFD
RECURSIVE LossyFrom(_, _)
LossyFrom(bs, i) ==
  IF i > Len(bs) THEN <<>>
  ELSE LET st == Utf8Step(bs, i)
       IN (IF st[2] THEN SubSeq(bs, i, i + st[1] - 1) ELSE Replacement)
          \o LossyFrom(bs, i + st[1])

\* String::from_utf8_lossy: text that is valid as it stands (all ASCII here)
\* is returned unchanged
from_utf8_lossy(bs) ==
  IF \A i \in 1..Len(bs) : bs[i] < 128 THEN bs ELSE LossyFrom(bs, 1)

IsHighSurrogate(u) == u >= 55296 /\ u <= 56319
IsLowSurrogate(u) == u >= 56320 /\ u <= 57343

\* String::from_utf16 from position i: [ok, bytes] (the UTF-8 of the text)
RECURSIVE from_utf16(_, _)
from_utf16(us, i) ==
  IF i > Len(us) THEN [ok |-> TRUE, bytes |-> <<>>]
  ELSE LET u == us[i]
           pair == IsHighSurrogate(u) /\ i < Len(us) /\ IsLowSurrogate(us[i + 1])
           cp == IF pair THEN 65536 + (u - 55296) * 1024 + (us[i + 1] - 56320) ELSE u
           enc == CASE cp < 128 -> <<cp>>
                    [] cp < 2048 -> <<192 + cp \div 64, 128 + (cp % 64)>>
                    [] cp < 65536 -> <<224 + cp \div 4096, 128 + ((cp \div 64) % 64), 128 + (cp % 64)>>
                    [] OTHER -> <<240 + cp \div 262144, 128 + ((cp \div 4096) % 64),
                                  128 + ((cp \div 64) % 64), 128 + (cp % 64)>>
           rest == from_utf16(us, i + (IF pair THEN 2 ELSE 1))
       IN IF (IsHighSurrogate(u) \/ IsLowSurrogate(u)) /\ ~pair
          THEN [ok |-> FALSE, bytes |-> <<>>]
          ELSE [ok |-> rest.ok, bytes |-> enc \o rest.bytes]

\* parse_string (tag 0x5)
parse_string(data, off, extra_info) ==
  LET l == ReadLength(data, off, extra_info)
  IN IF l.status # "ok" \/ ~Has(data, l.next, l.count) THEN Fail("error")
     ELSE Ok(String(from_utf8_lossy(Slice(data, l.next, l.count))))

\* parse_ascii_string (tag 0x6): len 16-bit units
parse_ascii_string(data, off, extra_info) ==
  LET l == ReadLength(data, off, extra_info)
  IN IF l.status # "ok" THEN Fail("error")
     ELSE LET r == ReadInts(data, l.next, l.count, 2)
              txt == from_utf16(r.list, 1)
          IN IF r.status # "ok" \/ ~txt.ok THEN Fail("error")
             ELSE Ok(String(txt.bytes))

\* ------------------------------------------------------------------------
\* BinaryReader: objects
\* ------------------------------------------------------------------------
ValidWidth(w) == w \in {1, 2, 4, 8}

RECURSIVE parse_object(_, _, _, _, _)
RECURSIVE ParseRefs(_, _, _, _, _, _, _)

\* the loops `for r in refs { parse_object(data, offsets[r], ..)? }` over
\* refs[lo..hi], stopping at the first failure: [status, vals]
ParseRefs(data, refs, lo, hi, offsets, trailer, path) ==
  IF lo > hi THEN [status |-> "ok", vals |-> <<>>]
  ELSE IF lo = hi
  THEN IF refs[lo] >= Len(offsets) THEN [status |-> "panic", vals |-> <<>>]
       ELSE LET r == parse_object(data, offsets[refs[lo] + 1], offsets, trailer, path)
            IN [status |-> r.status, vals |-> IF r.status = "ok" THEN <<r.value>> ELSE <<>>]
  ELSE LET mid == (lo + hi) \div 2
           left == ParseRefs(data, refs, lo, mid, offsets, trailer, path)
       IN IF left.status # "ok" THEN left
          ELSE LET right == ParseRefs(data, refs, mid + 1, hi, offsets, trailer, path)
               IN [status |-> right.status,
                   vals |-> IF right.status = "ok" THEN left.vals \o right.vals ELSE <<>>]

\* parse_array; off is the offset after the header byte
parse_array(data, off, extra_info, trailer, offsets, path) ==
  LET l == ReadLength(data, off, extra_info)
  IN IF l.status # "ok" THEN Fail("error")
     ELSE IF ~ValidWidth(trailer.object_ref_size) THEN Fail("panic")
     ELSE LET refs == ReadInts(data, l.next, l.count, trailer.object_ref_size)
          IN IF refs.status # "ok" THEN Fail("error")
             ELSE LET r == ParseRefs(data, refs.list, 1, Len(refs.list), offsets, trailer, path)
                  IN IF r.status # "ok" THEN Fail(r.status) ELSE Ok(Array(r.vals))

IsString(val) == val.t = "String"

\* the pairing loop zipping the keys with the values in reverse
ZipPairsReversed(keys, vals) ==
  [i \in 1..Len(vals) |-> <<keys[i].s, vals[Len(vals) + 1 - i]>>]

\* the loop `for (key_string, value_index) in keys.into_iter().zip(value_refs)`:
\* key i goes with the value decoded from value reference i
ZipPairs(keys, vals) == [i \in 1..Len(vals) |-> <<keys[i].s, vals[i]>>]

\* parse_dict; off is the offset after the header byte
parse_dict(data, off, extra_info, trailer, offsets, path) ==
  LET l == ReadLength(data, off, extra_info)
  IN IF l.status # "ok" THEN Fail("error")
     ELSE IF ~ValidWidth(trailer.object_ref_size) THEN Fail("panic")
     ELSE LET key_refs == ReadInts(data, l.next, l.count, trailer.object_ref_size)
              value_refs == ReadInts(data, key_refs.next, l.count, trailer.object_ref_size)
          IN IF key_refs.status # "ok" \/ value_refs.status # "ok" THEN Fail("error")
             ELSE LET k == ParseRefs(data, key_refs.list, 1, Len(key_refs.list),
                                     offsets, trailer, path)
                      keys == SelectSeq(k.vals, IsString)
                      n == IF Len(keys) < Len(value_refs.list)
                           THEN Len(keys) ELSE Len(value_refs.list)
                      vs == ParseRefs(data, value_refs.list, 1, n, offsets, trailer, path)
                  IN IF k.status # "ok" THEN Fail(k.status)
                     ELSE IF vs.status # "ok" THEN Fail(vs.status)
                     ELSE Ok(Dictionary(ZipPairs(keys, vs.vals)))

\* parse_object taking a header with an unknown type tag for the boolean false
parse_object_any_tag(data, offset, offsets, trailer, path) ==
  IF offset \in path THEN Fail("overflow")
  ELSE IF offset > Len(data) THEN Fail("panic")
  ELSE IF offset = Len(data) THEN Fail("error")
  ELSE LET header == data[offset + 1]
           object_type == header \div 16
           extra_info == header % 16
       IN CASE object_type = 0 -> parse_bool(extra_info)
            [] object_type = 1 -> parse_integer(data, offset + 1, extra_info)
            [] object_type = 2 -> parse_float(data, offset + 1, extra_info)
            [] object_type = 3 -> parse_date(data, offset + 1)
            [] object_type = 4 -> parse_data(data, offset + 1, extra_info)
            [] object_type = 5 -> parse_string(data, offset + 1, extra_info)
            [] object_type = 6 -> parse_ascii_string(data, offset + 1, extra_info)
            [] object_type = 10 ->
                 parse_array(data, offset + 1, extra_info, trailer, offsets, path \cup {offset})
            [] object_type = 13 ->
                 parse_dict(data, offset + 1, extra_info, trailer, offsets, path \cup {offset})
            [] OTHER -> Ok(Boolean(FALSE))

\* parse_object; path holds the offsets of the calls that have not returned
parse_object(data, offset, offsets, trailer, path) ==
  IF offset \in path THEN Fail("overflow")
  ELSE IF offset > Len(data) THEN Fail("panic")
  ELSE IF offset = Len(data) THEN Fail("error")
  ELSE LET header == data[offset + 1]
           object_type == header \div 16
           extra_info == header % 16
       IN CASE object_type = 0 -> parse_bool(extra_info)
            [] object_type = 1 -> parse_integer(data, offset + 1, extra_info)
            [] object_type = 2 -> parse_float(data, offset + 1, extra_info)
            [] object_type = 3 -> parse_date(data, offset + 1)
            [] object_type = 4 -> parse_data(data, offset + 1, extra_info)
            [] object_type = 5 -> parse_string(data, offset + 1, extra_info)
            [] object_type = 6 -> parse_ascii_string(data, offset + 1, extra_info)
            [] object_type = 10 ->
                 parse_array(data, offset + 1, extra_info, trailer, offsets, path \cup {offset})
            [] object_type = 13 ->
                 parse_dict(data, offset + 1, extra_info, trailer, offsets, path \cup {offset})
            [] OTHER -> Fail("error")

\* parse_offset_table: [status, list]
parse_offset_table(input, start, counts, int_size) ==
  IF ~ValidWidth(int_size) THEN [status |-> "panic", list |-> <<>>]
  ELSE LET r == ReadInts(input, start, counts, int_size)
       IN [status |-> r.status, list |-> r.list]

\* BinaryReader::parse
parse(input) ==
  IF ~parse_bplist_header(input) THEN Fail("error")
  ELSE IF Len(input) < 32 THEN Fail("panic")
  ELSE LET trailer == parse_trailer(input, Len(input) - 32)
       IN IF trailer.offset_table_start > Len(input) THEN Fail("panic")
          ELSE LET t == parse_offset_table(input, trailer.offset_table_start,
                                           trailer.num_objects,
                                           trailer.offset_table_offset_size)
               IN IF t.status # "ok" THEN Fail(t.status)
                  ELSE IF trailer.top_object_offset >= Len(t.list) THEN Fail("panic")
                  ELSE parse_object(input, t.list[trailer.top_object_offset + 1],
                                    t.list, trailer, {})

\* ------------------------------------------------------------------------
\* The values written
\* ------------------------------------------------------------------------
SA == <<97>>
SB == <<98>>
SIOS == <<105, 79, 83>>
\* 1.5, 0.1 and 0.0 as f64
F15 == <<63, 248, 0, 0, 0, 0, 0, 0>>
F01 == <<63, 185, 153, 153, 153, 153, 153, 154>>
F00 == Zeros(8)
\* -1.5, -0.0, f32::MAX, 2^-140 (subnormal in f32), 2^128, 1 + 2^-52 and
\* +infinity as f64
FNeg15 == <<191, 248, 0, 0, 0, 0, 0, 0>>
FNeg0 == <<128, 0, 0, 0, 0, 0, 0, 0>>
FMaxF32 == <<71, 239, 255, 255, 224, 0, 0, 0>>
FSub == <<55, 48, 0, 0, 0, 0, 0, 0>>
FTwo128 == <<71, 240, 0, 0, 0, 0, 0, 0>>
FOneEps == <<63, 240, 0, 0, 0, 0, 0, 1>>
FInf == <<127, 240, 0, 0, 0, 0, 0, 0>>
\* 2^32 as i64
TwoPow32 == <<0, 0, 0, 1, 0, 0, 0, 0>>
Unix2001 == 978307200

Fill(n, b) == [i \in 1..n |-> b]

Scalars ==
  { Boolean(TRUE), Boolean(FALSE),
    Integer(I64(0)), Integer(I64(1)), Integer(I64(2)), Integer(I64(255)),
    Integer(I64(256)), Integer(I64(65536)), Integer(TwoPow32),
    Float(F15), Float(F01), Float(F00),
    Date(Unix2001, 0), Date(0, 0), Date(Unix2001 + 1, HalfNanos), Date(-1, HalfNanos),
    Date(-1, 0), Date(Unix2001 - 1, 0),
    Data(<<>>), Data(<<1, 2>>),
    String(<<>>), String(SA), String(SB), String(SIOS) }

\* scalars that sit next to each other inside the containers of the model
Few == { Boolean(TRUE), Integer(I64(1)), Integer(I64(2)), String(SA), String(SIOS) }

BigArray(n) == Array([i \in 1..n |-> Integer(I64(i - 1))])

Containers ==
  { Array(<<>>), Dictionary(<<>>) }
  \cup { Array(<<x>>) : x \in Scalars }
  \cup { Array(<<x, y>>) : x \in Few, y \in Few }
  \cup { Dictionary(<< <<SA, x>> >>) : x \in Scalars }
  \cup { Dictionary(<< <<k1, x>>, <<k2, y>> >>) :
           k1 \in {SA, SB}, k2 \in {SA, SB}, x \in {Integer(I64(1)), String(SA)},
           y \in {Integer(I64(2)), String(SA)} }
  \cup { Array(<<String(SIOS), Dictionary(<< <<SA, String(SIOS)>>, <<SIOS, String(SIOS)>> >>)>>),
         Array(<<Array(<<String(SA)>>), Array(<<String(SA)>>), Array(<<String(SA)>>)>>),
         Array(<<Dictionary(<< <<SA, Integer(I64(1))>> >>),
                 Dictionary(<< <<SA, Integer(I64(1))>> >>)>>),
         Dictionary(<< <<SB, Array(<<String(SA)>>)>>, <<SA, Integer(I64(1))>> >>),
         Array(<<Integer(MinusOne)>>),
         Dictionary(<< <<SA, Array(<<Integer(I64(1)), Integer(MinusOne)>>)>> >>) }

LongValues ==
  { String(Fill(14, 97)), String(Fill(15, 97)), String(Fill(LongLen - 1, 97)),
    String(Fill(LongLen, 97)),
    Data(Fill(14, 7)), Data(Fill(15, 7)), Data(Fill(LongLen, 7)),
    Array(<<String(Fill(LongLen, 97)), String(Fill(LongLen, 97))>>),
    Array(<<String(Fill(15, 97)), String(Fill(15, 97))>>),
    Array(<<String(Fill(LongLen, 97)), String(SA)>>),
    Array(Fill(15, Boolean(TRUE))),
    BigArray(BigCount - 2), BigArray(BigCount - 1), BigArray(BigCount) }

\* 2^32 - 1 and 2^63 - 1 as i64
TwoPow32Less1 == <<0, 0, 0, 0, 255, 255, 255, 255>>
I64Max == <<127, 255, 255, 255, 255, 255, 255, 255>>

\* integers at the edges of the widths, next to those of Scalars
EdgeIntegers == { Integer(I64(65535)), Integer(TwoPow32Less1), Integer(I64Max) }

\* the number of indices a one-byte reference tells apart
WrapAt == 256

\* "a", ["a"], as many integers as bring the next index to WrapAt + 1, then
\* "b", ["b"]: "a" has index 1 and "b" index WrapAt + 1
WrapArray ==
  Array(<<String(SA), Array(<<String(SA)>>)>>
        \o [i \in 1..(WrapAt - 2) |-> Integer(I64(i - 1))]
        \o <<String(SB), Array(<<String(SB)>>)>>)

\* floats at the edges of single precision
EdgeFloats ==
  { Float(FNeg15), Float(FNeg0), Float(FMaxF32), Float(FSub), Float(FTwo128),
    Float(FOneEps), Float(FInf) }

Values ==
  Scalars \cup {Integer(MinusOne)} \cup Containers \cup LongValues \cup EdgeFloats
    \cup EdgeIntegers \cup {WrapArray}

\* bytes a malformed buffer gets in place of a written one
TamperBytes == {0, 1, 2, 3, 112, 255}

\* ------------------------------------------------------------------------
\* State
\* ------------------------------------------------------------------------
VARIABLES
  pc,                 \* position in write, then in the reader's run
  value,              \* the value given to write
  objects,            \* BinaryWriter.objects
  offsets,            \* BinaryWriter.offsets
  ref_size,           \* BinaryWriter.ref_size
  offset_size,        \* BinaryWriter.offset_size
  bytes,              \* the memo list `bytes` of write
  objects_data,       \* the chunks collect_objects returned to write
  offset_table_start, \* local of write
  output,             \* what the sink has received
  input,              \* the buffer given to BinaryReader::parse
  origin,             \* "none", "written" or "tampered": where input comes from
  result              \* what BinaryReader::parse returned

vars == <<pc, value, objects, offsets, ref_size, offset_size, bytes, objects_data,
          offset_table_start, output, input, origin, result>>

writer == <<objects, offsets, ref_size, offset_size, bytes, objects_data, offset_table_start>>
reader == <<input, origin, result>>

\* BinaryWriter::new() and an untouched sink
Init ==
  /\ pc = "start"
  /\ value \in Values
  /\ objects = 0
  /\ offsets = <<>>
  /\ ref_size = 1
  /\ offset_size = 1
  /\ bytes = <<>>
  /\ objects_data = <<>>
  /\ offset_table_start = 0
  /\ output = <<>>
  /\ input = <<>>
  /\ origin = "none"
  /\ result = Fail("none")

\* write sending the magic to the sink before collecting the value tree
CollectAfterMagic ==
  /\ pc = "start"
  /\ LET r == collect_objects(value, NewCollection, ref_size)
     IN IF r.st.panic
        THEN /\ pc' = "panicked"
             /\ UNCHANGED <<objects, bytes, objects_data>>
        ELSE /\ pc' = "collected"
             /\ objects' = r.st.objects
             /\ bytes' = r.st.mem
             /\ objects_data' = r.data
  /\ output' = output \o Magic
  /\ UNCHANGED <<value, offsets, ref_size, offset_size, offset_table_start>>
  /\ UNCHANGED reader

\* write, step 1: collect_objects(value, &mut bytes); a negative integer
\* panics inside serialize_integer
Collect ==
  /\ pc = "start"
  /\ LET r == collect_objects(value, NewCollection, ref_size)
     IN IF r.st.panic
        THEN /\ pc' = "panicked"
             /\ UNCHANGED <<objects, bytes, objects_data>>
        ELSE /\ pc' = "collected"
             /\ objects' = r.st.objects
             /\ bytes' = r.st.mem
             /\ objects_data' = r.data
  /\ UNCHANGED <<value, offsets, ref_size, offset_size, offset_table_start, output>>
  /\ UNCHANGED reader

\* write, step 2: output.write_all(b"bplist00")
WriteMagic ==
  /\ pc = "collected"
  /\ output' = output \o Magic
  /\ pc' = "magic"
  /\ UNCHANGED <<value>>
  /\ UNCHANGED writer
  /\ UNCHANGED reader

\* write, step 3: record the offsets, concatenate the chunks, write them
WriteObjectTable ==
  /\ pc = "magic"
  /\ LET object_bytes == Concat(objects_data, 1, Len(objects_data))
     IN /\ offsets' = offsets \o ChunkOffsets(objects_data)
        /\ offset_table_start' = Len(object_bytes) + 8
        /\ output' = output \o object_bytes
  /\ pc' = "objects"
  /\ UNCHANGED <<value, objects, ref_size, offset_size, bytes, objects_data>>
  /\ UNCHANGED reader

\* calculate_sizes looking at the first offset instead of the last
MaxOffsetFirst(offs) == IF Len(offs) = 0 THEN 0 ELSE offs[1]

\* the offset calculate_sizes looks at: offsets.last().unwrap_or(&0)
MaxOffset(offs) == IF Len(offs) = 0 THEN 0 ELSE offs[Len(offs)]

\* write, steps 4 and 5: calculate_sizes, generate_offset_table, write it
WriteOffsetTable ==
  /\ pc = "objects"
  /\ ref_size' = RefSizeFor(objects)
  /\ offset_size' = OffsetSizeFor(MaxOffset(offsets))
  /\ output' = output \o generate_offset_table(offsets, offset_size')
  /\ pc' = "table"
  /\ UNCHANGED <<value, objects, offsets, bytes, objects_data, offset_table_start>>
  /\ UNCHANGED reader

\* write, step 6: generate_trailer(0, bytes.len(), offset_table_start), write it
WriteTrailer ==
  /\ pc = "table"
  /\ output' = output \o generate_trailer(offset_size, ref_size, 0, Len(bytes),
                                          offset_table_start)
  /\ pc' = "done"
  /\ UNCHANGED <<value>>
  /\ UNCHANGED writer
  /\ UNCHANGED reader

\* a write_all of the sink returns an error and write goes on to its next step
SinkErrorSwallowed ==
  /\ pc \in {"collected", "magic", "objects", "table"}
  /\ pc' = (CASE pc = "collected" -> "magic" [] pc = "magic" -> "objects"
               [] pc = "objects" -> "table" [] pc = "table" -> "done")
  /\ UNCHANGED <<value, output>>
  /\ UNCHANGED writer
  /\ UNCHANGED reader

\* a write_all of the sink returns an error: write returns it through `?`
SinkError ==
  /\ pc \in {"collected", "magic", "objects", "table"}
  /\ pc' = "io_error"
  /\ UNCHANGED <<value, output>>
  /\ UNCHANGED writer
  /\ UNCHANGED reader

\* the written buffer is handed to the reader
Load ==
  /\ pc = "done"
  /\ input' = output
  /\ origin' = "written"
  /\ pc' = "loaded"
  /\ UNCHANGED <<value, output, result>>
  /\ UNCHANGED writer

\* a malformed buffer: the written one cut after k bytes
Truncate ==
  /\ pc = "loaded"
  /\ origin = "written"
  /\ Len(input) <= MaxTamperLen
  /\ \E k \in 0..(Len(input) - 1) : input' = SubSeq(input, 1, k)
  /\ origin' = "tampered"
  /\ UNCHANGED <<pc, value, output, result>>
  /\ UNCHANGED writer

\* a malformed buffer: the written one with one byte replaced
SetByte ==
  /\ pc = "loaded"
  /\ origin = "written"
  /\ Len(input) <= MaxTamperLen
  /\ \E p \in 1..Len(input) : \E b \in TamperBytes :
       /\ input[p] # b
       /\ input' = [input EXCEPT ![p] = b]
  /\ origin' = "tampered"
  /\ UNCHANGED <<pc, value, output, result>>
  /\ UNCHANGED writer

\* BinaryReader::parse(input)
Parse ==
  /\ pc = "loaded"
  /\ result' = parse(input)
  /\ pc' = "parsed"
  /\ UNCHANGED <<value, output, input, origin>>
  /\ UNCHANGED writer

Next ==
  \/ Collect
  \/ WriteMagic
  \/ WriteObjectTable
  \/ WriteOffsetTable
  \/ WriteTrailer
  \/ SinkError
  \/ Load
  \/ Truncate
  \/ SetByte
  \/ Parse

Spec == Init /\ [][Next]_vars

\* ------------------------------------------------------------------------
\* Vocabulary of the properties
\* ------------------------------------------------------------------------
Written == pc \in {"done", "loaded", "parsed"}
Collected == pc \in {"collected", "magic", "objects", "table", "done", "loaded", "parsed"}
ParsedWritten == pc = "parsed" /\ origin = "written"
ParsedTampered == pc = "parsed" /\ origin = "tampered"

\* the trailer of the written buffer
OutTrailer == parse_trailer(output, Len(output) - 32)

\* the chunk of the root object
RootChunk == objects_data[1]

IsLeaf(val) == val.t \notin {"Array", "Dictionary"}

\* the chunk of a scalar, which does not depend on the writer's state
LeafChunk(val) ==
  serialize_object(val, NewCollection, 1).list[1]

\* the index under which the memo list holds the object whose own chunk is c
\* (-1 when there is none)
IndexOfChunk(c) ==
  LET hits == {j \in 1..Len(bytes) : bytes[j][2][1] = c}
  IN IF hits = {} THEN 0 - 1 ELSE bytes[CHOOSE j \in hits : TRUE][1]

\* the children of a container in the order their references are emitted
ChildrenOf(val) ==
  IF val.t = "Array" THEN val.a
  ELSE [i \in 1..(2 * Len(val.kv)) |->
          IF i <= Len(val.kv) THEN String(val.kv[i][1]) ELSE val.kv[i - Len(val.kv)][2]]

\* length of a string, array or dictionary
LengthOf(val) ==
  CASE val.t = "String" -> Len(val.s)
    [] val.t = "Array" -> Len(val.a)
    [] val.t = "Dictionary" -> Len(val.kv)
    [] val.t = "Data" -> Len(val.bin)

\* the strings of a value in document order, dictionary keys included
RECURSIVE StringsOf(_)
RECURSIVE StringsIn(_, _, _)
StringsIn(vs, lo, hi) ==
  IF lo > hi THEN <<>>
  ELSE IF lo = hi THEN StringsOf(vs[lo])
  ELSE LET mid == (lo + hi) \div 2
       IN StringsIn(vs, lo, mid) \o StringsIn(vs, mid + 1, hi)
StringsOf(val) ==
  CASE val.t = "String" -> <<val.s>>
    [] val.t = "Array" -> StringsIn(val.a, 1, Len(val.a))
    [] val.t = "Dictionary" ->
         StringsIn([i \in 1..(2 * Len(val.kv)) |->
                      IF i % 2 = 1 THEN String(val.kv[(i + 1) \div 2][1])
                      ELSE val.kv[i \div 2][2]], 1, 2 * Len(val.kv))
    [] OTHER -> <<>>

\* the number of nodes of a value, each dictionary key counted as a node
RECURSIVE NodeCount(_)
RECURSIVE NodesIn(_, _, _)
NodesIn(vs, lo, hi) ==
  IF lo > hi THEN 0
  ELSE IF lo = hi THEN NodeCount(vs[lo])
  ELSE LET mid == (lo + hi) \div 2
       IN NodesIn(vs, lo, mid) + NodesIn(vs, mid + 1, hi)
NodeCount(val) ==
  CASE val.t = "Array" -> 1 + NodesIn(val.a, 1, Len(val.a))
    [] val.t = "Dictionary" ->
         1 + Len(val.kv) + NodesIn([i \in 1..Len(val.kv) |-> val.kv[i][2]], 1, Len(val.kv))
    [] OTHER -> 1

RepeatedStrings(val) ==
  LET ss == StringsOf(val)
  IN {ss[i] : i \in {j \in 1..Len(ss) : \E k \in 1..Len(ss) : k # j /\ ss[k] = ss[j]}}

\* the smallest of 1, 2, 4, 8 bytes that can hold n (n below 2^31)
MinWidth(n) == IF n < 256 THEN 1 ELSE IF n < 65536 THEN 2 ELSE 4

Max(ns) == CHOOSE n \in ns : \A m \in ns : m <= n
Range(f) == {f[i] : i \in DOMAIN f}

\* ------------------------------------------------------------------------
\* Properties
\* ------------------------------------------------------------------------

\* C1: every value without a negative integer is written successfully and
\* parsing the written buffer returns a value deep-equal to it.
C1_RoundTrip == ParsedWritten => result = Ok(value)

\* C2: the length n of a string, array or dictionary is stored in the low
\* nibble of the header when n < 15 and otherwise as 0xF followed by a count
\* record, and the reader's length rule applied to those bytes yields n.
C2_LengthAgreement ==
  (Collected /\ value.t \in {"String", "Array", "Dictionary"}) =>
    LET n == LengthOf(value)
        nib == RootChunk[1] % 16
        l == ReadLength(RootChunk, 1, nib)
    IN /\ nib = (IF n < 15 THEN n ELSE 15)
       /\ l.status = "ok"
       /\ l.count = n

\* C3: a Data value of n bytes is written as one object with type tag 0x4 in
\* the high nibble of its header, n encoded by the length rule and the n bytes
\* unchanged, and parse_object on that object returns the same Data.
C3_DataEncoding ==
  (Collected /\ value.t = "Data") =>
    /\ Len(objects_data) = 1
    /\ RootChunk[1] \div 16 = 4
    /\ LET l == ReadLength(RootChunk, 1, RootChunk[1] % 16)
       IN l.status = "ok" /\ l.count = Len(value.bin)
          /\ SubSeq(RootChunk, l.next + 1, Len(RootChunk)) = value.bin
    /\ parse_object(RootChunk, 0, <<0>>, OutTrailer, {}) = Ok(value)

\* C4: in a written buffer every child reference of the root array or
\* dictionary occupies exactly object_ref_size bytes (the trailer's field) and
\* its big-endian value is the full object index of the child.
C4_RefWidth ==
  (pc = "done" /\ value.t \in {"Array", "Dictionary"}
     /\ \A i \in DOMAIN ChildrenOf(value) : IsLeaf(ChildrenOf(value)[i])) =>
    LET kids == ChildrenOf(value)
        w == OutTrailer.object_ref_size
        hdr == 1 + Len(serialize_length(10, LengthOf(value))[2])
        refs == ReadInts(RootChunk, hdr, Len(kids), w)
    IN /\ Len(RootChunk) = hdr + Len(kids) * w
       /\ refs.status = "ok"
       /\ \A i \in 1..Len(kids) : refs.list[i] = IndexOfChunk(LeafChunk(kids[i]))

\* C5: a string that occurs at two or more positions of a value is stored as
\* a single object, num_objects is below the number of value nodes, and
\* parsing the buffer yields the string at each of its positions.
C5_StringDedup ==
  (ParsedWritten /\ RepeatedStrings(value) # {}) =>
    /\ \A str \in RepeatedStrings(value) :
         Cardinality({j \in 1..Len(objects_data) : objects_data[j] = LeafChunk(String(str))}) = 1
    /\ OutTrailer.num_objects < NodeCount(value)
    /\ result.status = "ok"
    /\ StringsOf(result.value) = StringsOf(value)

\* C6: the object_ref_size byte of the trailer is 1 when at most 255 objects
\* are stored and 2 when between 256 and 65535 are.
C6_RefSizeMin ==
  pc = "done" =>
    LET n == Len(objects_data)
    IN /\ (n <= 255 => OutTrailer.object_ref_size = 1)
       /\ ((n >= 256 /\ n <= 65535) => OutTrailer.object_ref_size = 2)

C6_Witness ==
  pc = "done" /\ Len(objects_data) > 255 /\ OutTrailer.object_ref_size = 2

\* C7: the offset_int_size byte of the trailer is the smallest of 1, 2, 4, 8
\* that can represent the largest recorded offset, the offset table holds one
\* entry of exactly that width per object, and every entry is the absolute
\* offset at which the object's chunk lies in the buffer.
C7_OffsetWidth ==
  pc = "done" =>
    LET w == OutTrailer.offset_table_offset_size
        n == Len(objects_data)
        start == OutTrailer.offset_table_start
        tab == ReadInts(output, start, n, w)
    IN /\ w = MinWidth(Max(Range(offsets)))
       /\ Len(output) = start + n * w + 32
       /\ tab.status = "ok"
       /\ \A i \in 1..n :
            /\ tab.list[i] = offsets[i]
            /\ SubSeq(output, tab.list[i] + 1, tab.list[i] + Len(objects_data[i]))
                 = objects_data[i]

C7_Witness ==
  pc = "done" /\ Max(Range(offsets)) > 255 /\ OutTrailer.offset_table_offset_size = 2

\* the object of the written buffer with index idx holds the value val
Holds(idx, val) ==
  IF IsLeaf(val) THEN idx = IndexOfChunk(LeafChunk(val))
  ELSE /\ idx < Len(offsets)
       /\ parse_object(output, offsets[idx + 1], offsets, OutTrailer, {}) = Ok(val)

\* the writer's half of C8: the key references in pair order, then the value
\* references in pair order
C8_WriterOrder ==
  (pc = "done" /\ value.t = "Dictionary") =>
    LET kids == ChildrenOf(value)
        hdr == 1 + Len(serialize_length(13, LengthOf(value))[2])
        refs == ReadInts(RootChunk, hdr, Len(kids), OutTrailer.object_ref_size)
    IN /\ refs.status = "ok"
       /\ \A i \in 1..Len(kids) : Holds(refs.list[i], kids[i])

\* the reader's half of C8, on written and on malformed buffers: pair i of the
\* result is (string at key reference i, value at value reference i)
C8_ReaderPairing ==
  (pc = "parsed" /\ result.status = "ok" /\ result.value.t = "Dictionary") =>
    LET tr == parse_trailer(input, Len(input) - 32)
        offs == parse_offset_table(input, tr.offset_table_start, tr.num_objects,
                                   tr.offset_table_offset_size).list
        root == offs[tr.top_object_offset + 1]
        l == ReadLength(input, root + 1, input[root + 1] % 16)
        krefs == ReadInts(input, l.next, l.count, tr.object_ref_size)
        vrefs == ReadInts(input, krefs.next, l.count, tr.object_ref_size)
        K(i) == parse_object(input, offs[krefs.list[i] + 1], offs, tr, {root}).value
        V(i) == parse_object(input, offs[vrefs.list[i] + 1], offs, tr, {root}).value
    IN (\A i \in 1..l.count : K(i).t = "String") =>
         /\ Len(result.value.kv) = l.count
         /\ \A i \in 1..l.count : result.value.kv[i] = <<K(i).s, V(i)>>

C9_BoundsSafety ==
  (pc = "parsed" /\ parse_bplist_header(input) /\ Len(input) >= 32) =>
    LET tr == parse_trailer(input, Len(input) - 32)
        tab == parse_offset_table(input, tr.offset_table_start, tr.num_objects,
                                  tr.offset_table_offset_size)
        pastEnd == \/ tr.offset_table_start > Len(input)
                   \/ /\ tab.status = "ok"
                      /\ tr.top_object_offset < Len(tab.list)
                      /\ tab.list[tr.top_object_offset + 1] > Len(input)
    IN pastEnd => result.status = "error"

\* C10: parse on a buffer shorter than 32 bytes fails with a decode error
\* returned to the caller.
C10_ShortBuffer ==
  (pc = "parsed" /\ Len(input) < 32) => result.status = "error"

\* the trailer and the offset table of the buffer given to parse
InTrailer == parse_trailer(input, Len(input) - 32)
InTable ==
  parse_offset_table(input, InTrailer.offset_table_start, InTrailer.num_objects,
                     InTrailer.offset_table_offset_size)

\* parse has run on a buffer with the magic, a trailer and an offset table
\* that lies inside the buffer
Framed ==
  /\ pc = "parsed"
  /\ parse_bplist_header(input)
  /\ Len(input) >= 32
  /\ InTrailer.offset_table_start <= Len(input)

\* ... whose offset table was read and holds the root index
Rooted ==
  /\ Framed
  /\ InTable.status = "ok"
  /\ InTrailer.top_object_offset < Len(InTable.list)
  /\ InTable.list[InTrailer.top_object_offset + 1] < Len(input)

RootOffset == InTable.list[InTrailer.top_object_offset + 1]
RootTag == input[RootOffset + 1] \div 16

\* the references of the root array (its elements) or of the root
\* dictionary (its keys, then its values); <<>> when they cannot be read
RootRefs ==
  LET l == ReadLength(input, RootOffset + 1, input[RootOffset + 1] % 16)
      n == IF RootTag = 13 THEN 2 * l.count ELSE l.count
      w == InTrailer.object_ref_size
      r == ReadInts(input, l.next, n, w)
  IN IF RootTag \in {10, 13} /\ l.status = "ok" /\ ValidWidth(w) /\ l.count < Huge \div 2
        /\ r.status = "ok"
     THEN r.list ELSE <<>>

\* C11: when the trailer's top_object_index, or a reference of the root array
\* or dictionary, is greater than or equal to the number of offset-table
\* entries, parse returns a decode error.
C11_OutOfRangeReference ==
  (Framed /\ InTable.status = "ok") =>
    LET n == Len(InTable.list)
        outOfRange == \/ InTrailer.top_object_offset >= n
                      \/ /\ Rooted
                         /\ \E i \in DOMAIN RootRefs : RootRefs[i] >= n
    IN outOfRange => result.status = "error"

\* the object a reference of the root container resolves to, decoded
RootChild(i) ==
  parse_object(input, InTable.list[RootRefs[i] + 1], InTable.list, InTrailer, {RootOffset})

\* the root is a dictionary whose references are all inside the offset table
RootDictionary ==
  /\ Rooted
  /\ RootTag = 13
  /\ RootRefs # <<>>
  /\ \A i \in DOMAIN RootRefs : RootRefs[i] < Len(InTable.list)

\* C12: when a key reference of the root dictionary resolves to an object
\* that decodes to something other than a string, parse returns a decode
\* error and no Dictionary.
C12_NonStringKey ==
  RootDictionary =>
    LET n == Len(RootRefs) \div 2
        nonString == \E i \in 1..n :
                       RootChild(i).status = "ok" /\ RootChild(i).value.t # "String"
    IN nonString => result.status = "error"

\* the root is an array whose references are all inside the offset table
RootArray ==
  /\ Rooted
  /\ RootTag = 10
  /\ RootRefs # <<>>
  /\ \A i \in DOMAIN RootRefs : RootRefs[i] < Len(InTable.list)

\* the root array has an element reference that names the root itself
SelfReference ==
  RootArray /\ \E i \in DOMAIN RootRefs : RootRefs[i] = InTrailer.top_object_offset

\* C13: parse terminates on every buffer, and on a buffer whose root array
\* has an element reference equal to its own object index it returns a decode
\* error.
C13_CycleDefence ==
  pc = "parsed" =>
    /\ result.status # "overflow"
    /\ SelfReference => result.status = "error"

\* C14: on a buffer with the magic and a trailer whose offset_int_size is
\* none of 1, 2, 4, 8, parse returns a decode error.
C14_InvalidOffsetWidth ==
  (Framed /\ ~ValidWidth(InTrailer.offset_table_offset_size)) => result.status = "error"

\* C15: on a buffer with the magic, an offset table that holds the root and
\* a trailer whose object_ref_size is none of 1, 2, 4, 8, parse returns a
\* decode error, whatever the root object is.
C15_InvalidRefWidth ==
  (Rooted /\ ~ValidWidth(InTrailer.object_ref_size)) => result.status = "error"

\* a negative Integer occurs somewhere in the tree of the value
RECURSIVE ContainsNegative(_)
ContainsNegative(val) ==
  CASE val.t = "Integer" -> IsNegative(val.i)
    [] val.t = "Array" -> \E j \in DOMAIN val.a : ContainsNegative(val.a[j])
    [] val.t = "Dictionary" -> \E j \in DOMAIN val.kv : ContainsNegative(val.kv[j][2])
    [] OTHER -> FALSE

\* C16: write on a value that contains a negative Integer does not abort the
\* process and gives nothing to the sink.
C16_NegativeInteger ==
  (pc # "start" /\ ContainsNegative(value)) => (pc # "panicked" /\ output = <<>>)

\* the first 8 bytes of the buffer are not "bplist00"
BadMagic == Len(input) < 8 \/ \E i \in 1..8 : input[i] # Magic[i]

\* C17: parse on a buffer whose first 8 bytes are not "bplist00", whatever
\* its length (the empty buffer included), returns a decode error.
C17_MagicValidation ==
  (pc = "parsed" /\ BadMagic) => result = Fail("error")

\* a full-length buffer with a wrong version digit, and it was rejected
C17_Witness ==
  /\ pc = "parsed"
  /\ Len(input) >= 32
  /\ SubSeq(input, 1, 6) = SubSeq(Magic, 1, 6)
  /\ BadMagic
  /\ result = Fail("error")

\* every dictionary inside the value has pairwise distinct keys
RECURSIVE UniqueKeys(_)
UniqueKeys(val) ==
  CASE val.t = "Array" -> \A j \in DOMAIN val.a : UniqueKeys(val.a[j])
    [] val.t = "Dictionary" ->
         /\ \A j, k \in DOMAIN val.kv : val.kv[j][1] = val.kv[k][1] => j = k
         /\ \A j \in DOMAIN val.kv : UniqueKeys(val.kv[j][2])
    [] OTHER -> TRUE

\* C18: every Dictionary inside a value returned by a successful parse has
\* pairwise distinct keys, on written and on malformed buffers.
C18_KeyUniqueness ==
  (pc = "parsed" /\ result.status = "ok") => UniqueKeys(result.value)

\* the payload of the root object when it is a date
RootPayload == Slice(input, RootOffset + 1, 8)

\* the writer's part of C19: header 0x33, then the f64 of (Unix seconds -
\* 978307200) plus the fraction; eight zero bytes for 2001-01-01T00:00:00Z
C19_WriterEncoding ==
  (Collected /\ value.t = "Date") =>
    /\ Len(objects_data) = 1
    /\ RootChunk = <<51>> \o HalfToF64(2 * (value.d[1] - Unix2001) + value.d[2] \div HalfNanos)
    /\ value = Date(Unix2001, 0) => RootChunk = <<51>> \o Zeros(8)

\* the reader's part of C19: a payload of s seconds decodes to the instant
\* 978307200 + s (u half seconds after 1970 are the instant of second
\* floor(u / 2) and nanosecond (u mod 2) * 500000000)
C19_ReaderMapping ==
  (Rooted /\ RootTag = 3 /\ Has(input, RootOffset + 1, 8)) =>
    /\ RootPayload = Zeros(8) => result = Ok(Date(Unix2001, 0))
    /\ (OnHalfGrid(RootPayload)
          /\ (F64Sign(RootPayload) = 1 \/ F64ToHalfAbs(RootPayload) <= MaxDateHalves)) =>
         LET k == F64ToHalfAbs(RootPayload)
             u == IF F64Sign(RootPayload) = 1 THEN Epoch2001Halves - k
                  ELSE Epoch2001Halves + k
         IN result = Ok(Date(u \div 2, (u % 2) * HalfNanos))

\* the round trip of C19: a whole-second instant is parsed back unchanged
C19_WholeSeconds ==
  (ParsedWritten /\ value.t = "Date" /\ value.d[2] = 0) => result = Ok(value)

\* C19: a Date is written as 0x33 and the big-endian f64 of (Unix seconds -
\* 978307200) plus the sub-second fraction, 2001-01-01T00:00:00Z as eight
\* zero bytes; the reader maps a payload of s seconds to the instant
\* 978307200 + s, eight zero bytes to 2001-01-01T00:00:00Z; every
\* whole-second instant survives write followed by parse.
C19_DateEpoch == C19_WriterEncoding /\ C19_ReaderMapping /\ C19_WholeSeconds

\* the floats of the model that single precision represents exactly and that
\* are finite: 1.5, 0.0, -1.5, -0.0, f32::MAX, 2^-140
SingleFloats == {F15, F00, FNeg15, FNeg0, FMaxF32, FSub}

\* C20: a Float is written in the 4-byte form exactly when single precision
\* holds it exactly and it is within single range (1.5), in the 8-byte form
\* otherwise (0.1), and the reader decodes either form back to the original
\* value.
C20_FloatPrecision ==
  /\ (Collected /\ value.t = "Float") =>
        /\ Len(objects_data) = 1
        /\ RootChunk[1] \div 16 = 2
        /\ value.f \in SingleFloats => Len(RootChunk) = 1 + 4
        /\ value.f \notin SingleFloats => RootChunk = <<35>> \o value.f
        /\ value = Float(F15) => RootChunk = <<32, 63, 192, 0, 0>>
  /\ (ParsedWritten /\ value.t = "Float") => result = Ok(value)

\* 1.5 went out in the 4-byte form and came back as 1.5
C20_Witness ==
  /\ ParsedWritten
  /\ value = Float(F15)
  /\ Len(RootChunk) = 5
  /\ result = Ok(value)

\* the type tags parse_object knows
SupportedTags == {0, 1, 2, 3, 4, 5, 6, 10, 13}

\* the object at offset off has a header with an unknown type tag
BadTagAt(off) == off < Len(input) /\ (input[off + 1] \div 16) \notin SupportedTags

\* C21: when the header of the root object, or of an object that a reference
\* of the root array or dictionary names, has a type tag outside
\* {0x0 .. 0x6, 0xA, 0xD}, parse returns a decode error and no value.
C21_UnsupportedTag ==
  Rooted =>
    LET badChild == /\ (RootArray \/ RootDictionary)
                    /\ \E i \in DOMAIN RootRefs : BadTagAt(InTable.list[RootRefs[i] + 1])
    IN (BadTagAt(RootOffset) \/ badChild) => result = Fail("error")

\* an element of the root array had its tag changed to an unknown one, and the
\* buffer was rejected
C21_Witness ==
  /\ RootArray
  /\ \E i \in DOMAIN RootRefs : BadTagAt(InTable.list[RootRefs[i] + 1])
  /\ result = Fail("error")

\* the collection of write replayed on the value, for its history fields
History == collect_objects(value, NewCollection, 1).st

\* the least index among the stored objects whose own chunk is c
FirstStored(stored, c) ==
  LET same == {stored[k].index : k \in {m \in DOMAIN stored : stored[m].chunk = c}}
  IN CHOOSE i \in same : \A j \in same : i <= j

\* C22: a collected value whose own chunk is byte-identical to the chunk of an
\* object already stored is given the index of the first such object and
\* stores nothing, so the object table never holds two byte-identical objects.
C22_StructuralDedup ==
  pc = "collected" =>
    LET h == History
    IN /\ \A i, j \in DOMAIN objects_data : objects_data[i] = objects_data[j] => i = j
       /\ \A k \in DOMAIN h.reused :
            h.reused[k].index = FirstStored(h.stored, h.reused[k].chunk)

\* the stored objects that were assigned index i during collection
StoredAt(stored, i) == {k \in DOMAIN stored : stored[k].index = i}

\* the own chunks of the stored objects, by index: entry i + 1 is the chunk of
\* the object with index i
ChunksByIndex(stored, n) ==
  [i \in 1..n |-> stored[CHOOSE k \in StoredAt(stored, i - 1) : TRUE].chunk]

C24_OutputLayout ==
  pc = "done" =>
    LET table == Concat(objects_data, 1, Len(objects_data))
        n == Len(objects_data)
        t == Len(output) - 32
        T == SubSeq(output, t + 1, t + 32)
        stored == History.stored
    IN /\ SubSeq(output, 1, 8) = <<98, 112, 108, 105, 115, 116, 48, 48>>
       /\ SubSeq(output, 9, 8 + Len(table)) = table
       /\ Len(output) = 8 + Len(table) + n * offset_size + 32
       /\ SubSeq(T, 1, 6) = <<0, 0, 0, 0, 0, 0>>
       /\ T[7] = offset_size
       /\ T[8] = ref_size
       /\ SubSeq(T, 9, 16) = BE(n, 8)
       /\ SubSeq(T, 17, 24) = <<0, 0, 0, 0, 0, 0, 0, 0>>
       /\ SubSeq(T, 25, 32) = BE(8 + Len(table), 8)
       /\ \E k \in DOMAIN stored :
            /\ stored[k].index = 0
            /\ stored[k].v = value
            /\ stored[k].chunk = SubSeq(output, 9, 8 + Len(stored[k].chunk))
       /\ parse_trailer(T, 0) =
            [offset_table_offset_size |-> offset_size, object_ref_size |-> ref_size,
             num_objects |-> n, top_object_offset |-> 0,
             offset_table_start |-> 8 + Len(table)]

\* a written buffer of three objects whose two width bytes differ
C24_Witness ==
  /\ pc = "done"
  /\ value = Array(<<String(Fill(LongLen, 97)), String(SA)>>)
  /\ offset_size = 2
  /\ ref_size = 1
  /\ OutTrailer.num_objects = 3

\* C25: a collect call that finds its object already stored returns with the
\* object counter and the memo list as they were when the call began and
\* returns no chunk for the object table.
C25_DedupRollback ==
  pc = "collected" =>
    LET h == History
    IN \A k \in DOMAIN h.reused :
         /\ h.reused[k].objects1 = h.reused[k].objects0
         /\ h.reused[k].mem1 = h.reused[k].mem0
         /\ h.reused[k].data = <<>>

\* an array whose elements were all stored before was itself found stored,
\* after five collects
C25_Witness ==
  /\ pc = "collected"
  /\ LET h == History
     IN \E k \in DOMAIN h.reused :
          /\ h.reused[k].v = Array(<<String(SA)>>)
          /\ h.reused[k].objects0 = 4
          /\ h.reused[k].objects1 = 4

\* C28: whenever collect gives a value the index of an object already stored,
\* that object was stored for a value deep-equal to it, whatever the number
\* of objects.
C28_DedupSoundness ==
  pc = "collected" =>
    LET h == History
    IN \A k \in DOMAIN h.reused :
         \E m \in DOMAIN h.stored :
           /\ h.stored[m].index = h.reused[k].index
           /\ h.stored[m].v = h.reused[k].v

\* the chunk of each integer of the model: 0, 1, 2, 255 | 256, 65535 |
\* 65536, 2^32 - 1 | 2^32, 2^63 - 1
IntegerChunks ==
  { <<I64(0), <<16, 0>> >>, <<I64(1), <<16, 1>> >>, <<I64(2), <<16, 2>> >>,
    <<I64(255), <<16, 255>> >>,
    <<I64(256), <<17, 1, 0>> >>, <<I64(65535), <<17, 255, 255>> >>,
    <<I64(65536), <<18, 0, 1, 0, 0>> >>, <<TwoPow32Less1, <<18, 255, 255, 255, 255>> >>,
    <<TwoPow32, <<19, 0, 0, 0, 1, 0, 0, 0, 0>> >>,
    <<I64Max, <<19, 127, 255, 255, 255, 255, 255, 255, 255>> >> }

\* C26: a non-negative Integer n is written with the narrowest width w of 1,
\* 2, 4, 8 bytes that holds it, as header 0x10 | log2(w) and n in w big-endian
\* bytes, and the reader decodes the object back to n.
C26_IntegerEncoding ==
  /\ (Collected /\ value.t = "Integer") =>
        LET w == Len(RootChunk) - 1
        IN /\ Len(objects_data) = 1
           /\ w \in {1, 2, 4, 8}
           /\ RootChunk[1] = 16 + (CASE w = 1 -> 0 [] w = 2 -> 1 [] w = 4 -> 2 [] w = 8 -> 3)
           /\ Zeros(8 - w) \o SubSeq(RootChunk, 2, 1 + w) = value.i
           /\ w > 1 => \E j \in 1..(8 - w \div 2) : value.i[j] # 0
           /\ <<value.i, RootChunk>> \in IntegerChunks
  /\ (ParsedWritten /\ value.t = "Integer") => result = Ok(value)

\* 65535 went out in two bytes and came back
C26_Witness ==
  /\ ParsedWritten
  /\ value = Integer(I64(65535))
  /\ RootChunk = <<17, 255, 255>>
  /\ result = Ok(value)

\* output' is output followed by n more bytes
Extended(n) == Len(output') = Len(output) + n /\ SubSeq(output', 1, Len(output)) = output

\* C27: the sink receives the magic, the object table, the offset table and
\* the trailer in this order; write returns success only with the fourth
\* write; a failed sink write ends write with the error and nothing is
\* written after it.
C27_SinkOrdering ==
  [][ /\ output' # output =>
           \/ pc = "collected" /\ pc' = "magic" /\ output = <<>> /\ output' = Magic
           \/ /\ pc = "magic" /\ pc' = "objects" /\ output = Magic
              /\ output' = Magic \o Concat(objects_data, 1, Len(objects_data))
           \/ /\ pc = "objects" /\ pc' = "table"
              /\ Len(output) = 8 + SumLen(objects_data, 1, Len(objects_data))
              /\ Extended(Len(objects_data) * offset_size')
           \/ /\ pc = "table" /\ pc' = "done"
              /\ Len(output) = 8 + SumLen(objects_data, 1, Len(objects_data))
                                 + Len(objects_data) * offset_size
              /\ Extended(32)
      /\ pc' # pc => (pc' \in {"magic", "objects", "table", "done"} => output' # output)
      /\ pc' = "io_error" => output' = output
      /\ pc = "io_error" => (pc' = "io_error" /\ output' = output)
    ]_vars

\* the write of the offset table failed after the magic and the object table
\* had been written
C27_Witness ==
  /\ pc = "io_error"
  /\ Len(output) > 8
  /\ SubSeq(output, 1, 8) = Magic

\* C29: when collection has finished, the object counter, the number of memo
\* entries and the number of chunks of the object table are equal, and the
\* memo indices are exactly 0 .. n - 1, none of them given to two objects;
\* the offset table then has that many entries and the trailer carries that
\* number as num_objects.
C29_CountAgreement ==
  LET n == Len(bytes)
  IN /\ pc \in {"collected", "magic", "objects", "table", "done"} =>
          /\ objects = n
          /\ Len(objects_data) = n
          /\ {bytes[j][1] : j \in DOMAIN bytes} = 0..(n - 1)
          /\ \A j, k \in DOMAIN bytes : bytes[j][1] = bytes[k][1] => j = k
     /\ pc \in {"objects", "table", "done"} => Len(offsets) = n
     /\ pc = "done" =>
          LET t == Len(output) - 32
          IN /\ SubSeq(output, t + 9, t + 16) = BE(n, 8)
             /\ t = offset_table_start + objects * offset_size

\* collection has finished with strings found stored, and four objects
C29_Witness ==
  /\ pc = "collected"
  /\ value = Array(<<String(SIOS),
                     Dictionary(<< <<SA, String(SIOS)>>, <<SIOS, String(SIOS)>> >>)>>)
  /\ objects = 4
  /\ Len(bytes) = 4
  /\ Len(objects_data) = 4

\* C30: write sends no byte to the sink until the whole value tree has been
\* collected: the step that collects leaves the sink as it was, and a write
\* whose collection fails (a negative Integer anywhere in the tree) ends with
\* the sink exactly as it was before the call.
C30_NoEarlyOutput ==
  [][/\ pc = "start" => output' = output
     /\ pc' = "panicked" => /\ pc = "start"
                            /\ ContainsNegative(value)
                            /\ output' = output
                            /\ output = <<>>
     /\ output' # output => pc \in {"collected", "magic", "objects", "table"}]_vars

\* collection has failed on a negative integer below the root, nothing written
C30_Witness ==
  /\ pc = "panicked"
  /\ value.t # "Integer"
  /\ ContainsNegative(value)
  /\ output = <<>>

====
